---- MODULE Spec2Model ----
(***************************************************************************)
(* Space usage accounting of src/space_usage/mod.rs: FieldUsage,           *)
(* PerFieldSpaceUsage, StoreSpaceUsage, SegmentSpaceUsage,                 *)
(* SearcherSpaceUsage and ComponentSpaceUsage.                             *)
(*                                                                         *)
(* Option<T> is a sequence of length at most one: <<>> is None and <<v>>   *)
(* is Some(v).  A Vec is a sequence; slot idx of a Vec is element idx + 1. *)
(* A HashMap<Field, FieldUsage> is a function whose domain is the set of   *)
(* keys.  ByteCount (crate `common`) is a natural number; the values of    *)
(* the model stay far below the width of its u64.                          *)
(***************************************************************************)
EXTENDS Naturals, Sequences, FiniteSets

VARIABLES
    field_usage,       \* the FieldUsage being filled by its producer
    panicked,          \* TRUE once assert! of add_field_idx has failed on field_usage
    per_field,         \* Option: the PerFieldSpaceUsage last built
    store,             \* Option: the StoreSpaceUsage last built, until moved into a segment
    segment,           \* Option: the SegmentSpaceUsage last built
    component_result,  \* Option: the ComponentSpaceUsage last returned by component()
    searcher,          \* the SearcherSpaceUsage
    call               \* the operation last invoked and its arguments

vars == <<field_usage, panicked, per_field, store, segment, component_result, searcher, call>>

----------------------------------------------------------------------------
(* Bounds *)

MaxBytes == 2
MaxField == 1
MaxIdx == 2
MaxLen == 3
MaxDocs == 1
MaxSegments == 3

Bytes == 0..MaxBytes
Fields == 0..MaxField
Idxs == 0..MaxIdx
Docs == 0..MaxDocs

----------------------------------------------------------------------------
(* Option, ByteCount, Vec *)

None == <<>>

Some(v) == <<v>>

\* ByteCount::default()
ByteCount_default == 0

\* ByteCount + ByteCount, ByteCount += ByteCount
ByteAdd(a, b) == a + b

\* Vec::resize(new_len, value): truncates, or extends with copies of value
RECURSIVE resize(_, _, _)
resize(v, new_len, value) ==
    IF new_len <= Len(v)
    THEN SubSeq(v, 1, new_len)
    ELSE resize(Append(v, value), new_len, value)

----------------------------------------------------------------------------
(* FieldUsage *)

FieldUsage_empty(field) ==
    [field |-> field, num_bytes |-> ByteCount_default, sub_num_bytes |-> <<>>]

FieldUsage_field(self) == self.field

FieldUsage_sub_num_bytes(self) == self.sub_num_bytes

FieldUsage_total(self) == self.num_bytes

\* mutant: `self.num_bytes = size` for `self.num_bytes += size`
add_field_idx_assigns(self, idx, size) ==
    LET resized == IF Len(self.sub_num_bytes) < idx + 1
                   THEN resize(self.sub_num_bytes, idx + 1, None)
                   ELSE self.sub_num_bytes
        grown == [self EXCEPT !.sub_num_bytes = resized]
    IN  IF resized[idx + 1] # None
        THEN [self |-> grown, panicked |-> TRUE]
        ELSE [self |-> [grown EXCEPT !.sub_num_bytes[idx + 1] = Some(size),
                                     !.num_bytes = size],
              panicked |-> FALSE]

\* mutant: the assert! is missing, a recorded slot is overwritten
add_field_idx_no_assert(self, idx, size) ==
    LET resized == IF Len(self.sub_num_bytes) < idx + 1
                   THEN resize(self.sub_num_bytes, idx + 1, None)
                   ELSE self.sub_num_bytes
        grown == [self EXCEPT !.sub_num_bytes = resized]
    IN  [self |-> [grown EXCEPT !.sub_num_bytes[idx + 1] = Some(size),
                                !.num_bytes = ByteAdd(@, size)],
         panicked |-> FALSE]

\* mutant: resize without the length test, which truncates a longer Vec
add_field_idx_always_resize(self, idx, size) ==
    LET resized == resize(self.sub_num_bytes, idx + 1, None)
        grown == [self EXCEPT !.sub_num_bytes = resized]
    IN  IF resized[idx + 1] # None
        THEN [self |-> grown, panicked |-> TRUE]
        ELSE [self |-> [grown EXCEPT !.sub_num_bytes[idx + 1] = Some(size),
                                     !.num_bytes = ByteAdd(@, size)],
              panicked |-> FALSE]

\* mutant: resize to idx + 2, one slot too many
add_field_idx_resize_extra(self, idx, size) ==
    LET resized == IF Len(self.sub_num_bytes) < idx + 1
                   THEN resize(self.sub_num_bytes, idx + 2, None)
                   ELSE self.sub_num_bytes
        grown == [self EXCEPT !.sub_num_bytes = resized]
    IN  IF resized[idx + 1] # None
        THEN [self |-> grown, panicked |-> TRUE]
        ELSE [self |-> [grown EXCEPT !.sub_num_bytes[idx + 1] = Some(size),
                                     !.num_bytes = ByteAdd(@, size)],
              panicked |-> FALSE]

\* add_field_idx(&mut self, idx, size): self as the call leaves it, and whether
\* the assert! failed. The resize comes before the assert!, the writes after it.
FieldUsage_add_field_idx(self, idx, size) ==
    LET resized == IF Len(self.sub_num_bytes) < idx + 1
                   THEN resize(self.sub_num_bytes, idx + 1, None)
                   ELSE self.sub_num_bytes
        grown == [self EXCEPT !.sub_num_bytes = resized]
    IN  IF resized[idx + 1] # None
        THEN [self |-> grown, panicked |-> TRUE]
        ELSE [self |-> [grown EXCEPT !.sub_num_bytes[idx + 1] = Some(size),
                                     !.num_bytes = ByteAdd(@, size)],
              panicked |-> FALSE]

----------------------------------------------------------------------------
(* PerFieldSpaceUsage *)

\* fields.iter().map(FieldUsage::total).sum()
RECURSIVE sum_totals(_)
sum_totals(fields) ==
    IF fields = <<>>
    THEN ByteCount_default
    ELSE ByteAdd(sum_totals(SubSeq(fields, 1, Len(fields) - 1)),
                 FieldUsage_total(fields[Len(fields)]))

\* fields.into_iter().map(|fu| (fu.field(), fu)).collect::<HashMap<_, _>>():
\* the entries are inserted in order, a later one replaces an earlier one
RECURSIVE collect_by_field(_)
collect_by_field(fields) ==
    IF fields = <<>>
    THEN <<>>
    ELSE LET earlier == collect_by_field(SubSeq(fields, 1, Len(fields) - 1))
             last == fields[Len(fields)]
         IN  [f \in DOMAIN earlier \cup {FieldUsage_field(last)} |->
                 IF f = FieldUsage_field(last) THEN last ELSE earlier[f]]

\* mutant: the total leaves out the first entry of the list
PerFieldSpaceUsage_new_skips_first(fields) ==
    [fields |-> collect_by_field(fields),
     total |-> IF fields = <<>> THEN ByteCount_default ELSE sum_totals(Tail(fields))]

PerFieldSpaceUsage_new(fields) ==
    [fields |-> collect_by_field(fields), total |-> sum_totals(fields)]

\* fields(): the (field, usage) pairs of the map, in no particular order
PerFieldSpaceUsage_fields(self) ==
    {<<f, self.fields[f]>> : f \in DOMAIN self.fields}

PerFieldSpaceUsage_total(self) == self.total

----------------------------------------------------------------------------
(* StoreSpaceUsage *)

\* mutant: the two arguments are stored the wrong way round
StoreSpaceUsage_new_swapped(data, offsets) == [data |-> offsets, offsets |-> data]

StoreSpaceUsage_new(data, offsets) == [data |-> data, offsets |-> offsets]

StoreSpaceUsage_data_usage(self) == self.data

StoreSpaceUsage_offsets_usage(self) == self.offsets

StoreSpaceUsage_total(self) == ByteAdd(self.data, self.offsets)

----------------------------------------------------------------------------
(* SegmentSpaceUsage *)

\* mutant: num_docs is added to the total
SegmentSpaceUsage_new_counts_docs(num_docs, termdict, postings, positions, fast_fields, fieldnorms, store_usage, deletes) ==
    [num_docs |-> num_docs, termdict |-> termdict, postings |-> postings,
     positions |-> positions, fast_fields |-> fast_fields,
     fieldnorms |-> fieldnorms, store |-> store_usage, deletes |-> deletes,
     total |-> ByteAdd(ByteAdd(ByteAdd(ByteAdd(ByteAdd(ByteAdd(ByteAdd(
                   PerFieldSpaceUsage_total(termdict),
                   PerFieldSpaceUsage_total(postings)),
                   PerFieldSpaceUsage_total(positions)),
                   PerFieldSpaceUsage_total(fast_fields)),
                   PerFieldSpaceUsage_total(fieldnorms)),
                   StoreSpaceUsage_total(store_usage)),
                   deletes), num_docs)]

SegmentSpaceUsage_new(num_docs, termdict, postings, positions, fast_fields, fieldnorms, store_usage, deletes) ==
    [num_docs |-> num_docs, termdict |-> termdict, postings |-> postings,
     positions |-> positions, fast_fields |-> fast_fields,
     fieldnorms |-> fieldnorms, store |-> store_usage, deletes |-> deletes,
     total |-> ByteAdd(ByteAdd(ByteAdd(ByteAdd(ByteAdd(ByteAdd(
                   PerFieldSpaceUsage_total(termdict),
                   PerFieldSpaceUsage_total(postings)),
                   PerFieldSpaceUsage_total(positions)),
                   PerFieldSpaceUsage_total(fast_fields)),
                   PerFieldSpaceUsage_total(fieldnorms)),
                   StoreSpaceUsage_total(store_usage)),
                   deletes)]

SegmentSpaceUsage_num_docs(self) == self.num_docs

SegmentSpaceUsage_termdict(self) == self.termdict

SegmentSpaceUsage_postings(self) == self.postings

SegmentSpaceUsage_positions(self) == self.positions

SegmentSpaceUsage_fast_fields(self) == self.fast_fields

SegmentSpaceUsage_fieldnorms(self) == self.fieldnorms

SegmentSpaceUsage_store(self) == self.store

SegmentSpaceUsage_deletes(self) == self.deletes

SegmentSpaceUsage_total(self) == self.total

\* crate::index::SegmentComponent, as matched by component()
SegmentComponent ==
    {"Postings", "Positions", "FastFields", "FieldNorms", "Terms",
     "Store", "TempStore", "Delete"}

\* enum ComponentSpaceUsage
PerField(usage) == [shape |-> "PerField", usage |-> usage]

Store(usage) == [shape |-> "Store", usage |-> usage]

Basic(bytes) == [shape |-> "Basic", usage |-> bytes]

\* mutant: TempStore falls to an empty store usage instead of the segment's
component_temp_store_empty(self, component) ==
    CASE component = "Postings" -> PerField(SegmentSpaceUsage_postings(self))
      [] component = "Positions" -> PerField(SegmentSpaceUsage_positions(self))
      [] component = "FastFields" -> PerField(SegmentSpaceUsage_fast_fields(self))
      [] component = "FieldNorms" -> PerField(SegmentSpaceUsage_fieldnorms(self))
      [] component = "Terms" -> PerField(SegmentSpaceUsage_termdict(self))
      [] component = "Store" -> Store(SegmentSpaceUsage_store(self))
      [] component = "TempStore" ->
             Store(StoreSpaceUsage_new(ByteCount_default, ByteCount_default))
      [] component = "Delete" -> Basic(SegmentSpaceUsage_deletes(self))

SegmentSpaceUsage_component(self, component) ==
    CASE component = "Postings" -> PerField(SegmentSpaceUsage_postings(self))
      [] component = "Positions" -> PerField(SegmentSpaceUsage_positions(self))
      [] component = "FastFields" -> PerField(SegmentSpaceUsage_fast_fields(self))
      [] component = "FieldNorms" -> PerField(SegmentSpaceUsage_fieldnorms(self))
      [] component = "Terms" -> PerField(SegmentSpaceUsage_termdict(self))
      [] component = "Store" -> Store(SegmentSpaceUsage_store(self))
      [] component = "TempStore" -> Store(SegmentSpaceUsage_store(self))
      [] component = "Delete" -> Basic(SegmentSpaceUsage_deletes(self))

----------------------------------------------------------------------------
(* SearcherSpaceUsage *)

SearcherSpaceUsage_new == [segments |-> <<>>, total |-> ByteCount_default]

\* mutant: `self.total = segment.total()` for `self.total += segment.total()`
add_segment_assigns(self, new_segment) ==
    [segments |-> Append(self.segments, new_segment),
     total |-> SegmentSpaceUsage_total(new_segment)]

\* mutant: a segment already in the list is not added again
add_segment_dedups(self, new_segment) ==
    IF \E i \in 1..Len(self.segments) : self.segments[i] = new_segment
    THEN self
    ELSE [segments |-> Append(self.segments, new_segment),
          total |-> ByteAdd(self.total, SegmentSpaceUsage_total(new_segment))]

SearcherSpaceUsage_add_segment(self, new_segment) ==
    [segments |-> Append(self.segments, new_segment),
     total |-> ByteAdd(self.total, SegmentSpaceUsage_total(new_segment))]

SearcherSpaceUsage_segments(self) == self.segments

SearcherSpaceUsage_total(self) == self.total

----------------------------------------------------------------------------
(* The values the operations are called with *)

\* a FieldUsage as its producer leaves it: empty, or with sub-part 0 recorded
FieldUsageInputs ==
    {FieldUsage_empty(f) : f \in Fields}
    \cup {FieldUsage_add_field_idx(FieldUsage_empty(f), 0, size).self :
             f \in Fields, size \in Bytes}

\* the Vec<FieldUsage> handed to PerFieldSpaceUsage::new
FieldUsageLists == UNION {[1..n -> FieldUsageInputs] : n \in 0..MaxLen}

\* the per-field usages handed to SegmentSpaceUsage::new: no field, or one
\* field of MaxBytes bytes
PerFieldInputs ==
    {PerFieldSpaceUsage_new(<<>>),
     PerFieldSpaceUsage_new(
         <<FieldUsage_add_field_idx(FieldUsage_empty(0), 0, MaxBytes).self>>)}

\* the segments handed to add_segment
SegmentInputs ==
    {SegmentSpaceUsage_new(MaxDocs,
                           PerFieldSpaceUsage_new(
                               <<FieldUsage_add_field_idx(FieldUsage_empty(0), 0, size).self>>),
                           PerFieldSpaceUsage_new(<<>>), PerFieldSpaceUsage_new(<<>>),
                           PerFieldSpaceUsage_new(<<>>), PerFieldSpaceUsage_new(<<>>),
                           StoreSpaceUsage_new(data, ByteCount_default),
                           ByteCount_default) :
        size \in Bytes, data \in Bytes}

----------------------------------------------------------------------------
(* FieldUsage: one producer fills one FieldUsage *)

InitField ==
    /\ \E field \in Fields :
          /\ field_usage = FieldUsage_empty(field)
          /\ call = [op |-> "empty", field |-> field]
    /\ panicked = FALSE
    /\ per_field = None
    /\ store = None
    /\ segment = None
    /\ component_result = None
    /\ searcher = SearcherSpaceUsage_new

\* FieldUsage::empty(field): the producer starts on another field
Empty ==
    \E field \in Fields :
        /\ field_usage' = FieldUsage_empty(field)
        /\ panicked' = FALSE
        /\ call' = [op |-> "empty", field |-> field]
        /\ UNCHANGED <<per_field, store, segment, component_result, searcher>>

\* field_usage.add_field_idx(idx, size); a failed assert! ends the measurement
AddFieldIdx ==
    /\ ~panicked
    /\ \E idx \in Idxs, size \in Bytes :
          /\ LET r == FieldUsage_add_field_idx(field_usage, idx, size)
             IN  /\ field_usage' = r.self
                 /\ panicked' = r.panicked
          /\ call' = [op |-> "add_field_idx", idx |-> idx, size |-> size]
    /\ UNCHANGED <<per_field, store, segment, component_result, searcher>>

NextField == Empty \/ AddFieldIdx

SpecField == InitField /\ [][NextField]_vars

----------------------------------------------------------------------------
(* PerFieldSpaceUsage: built from a list of FieldUsage *)

InitQuiet ==
    /\ field_usage = FieldUsage_empty(0)
    /\ panicked = FALSE
    /\ per_field = None
    /\ store = None
    /\ segment = None
    /\ component_result = None
    /\ searcher = SearcherSpaceUsage_new
    /\ call = [op |-> "none"]

\* PerFieldSpaceUsage::new(fields), once
PerFieldNew ==
    /\ per_field = None
    /\ \E fields \in FieldUsageLists :
          /\ per_field' = Some(PerFieldSpaceUsage_new(fields))
          /\ call' = [op |-> "PerFieldSpaceUsage::new", fields |-> fields]
    /\ UNCHANGED <<field_usage, panicked, store, segment, component_result, searcher>>

NextPerField == PerFieldNew

SpecPerField == InitQuiet /\ [][NextPerField]_vars

----------------------------------------------------------------------------
(* StoreSpaceUsage, SegmentSpaceUsage: the measurement of one segment *)

\* StoreSpaceUsage::new(data, offsets): the measurement of the segment starts
StoreNew ==
    /\ store = None
    /\ segment = None
    /\ \E data \in Bytes, offsets \in Bytes :
          /\ store' = Some(StoreSpaceUsage_new(data, offsets))
          /\ call' = [op |-> "StoreSpaceUsage::new", data |-> data, offsets |-> offsets]
    /\ UNCHANGED <<field_usage, panicked, per_field, segment, component_result, searcher>>

\* SegmentSpaceUsage::new(..): the store usage is moved into the segment
SegmentNew ==
    /\ store # None
    /\ \E num_docs \in Docs, deletes \in Bytes,
          termdict \in PerFieldInputs, postings \in PerFieldInputs,
          positions \in PerFieldInputs, fast_fields \in PerFieldInputs,
          fieldnorms \in PerFieldInputs :
          /\ segment' = Some(SegmentSpaceUsage_new(num_docs, termdict, postings, positions,
                                                   fast_fields, fieldnorms, store[1], deletes))
          /\ call' = [op |-> "SegmentSpaceUsage::new", num_docs |-> num_docs,
                      termdict |-> termdict, postings |-> postings,
                      positions |-> positions, fast_fields |-> fast_fields,
                      fieldnorms |-> fieldnorms, store |-> store[1], deletes |-> deletes]
    /\ store' = None
    /\ UNCHANGED <<field_usage, panicked, per_field, component_result, searcher>>

\* segment.component(kind)
Component ==
    /\ segment # None
    /\ \E kind \in SegmentComponent :
          /\ component_result' = Some(SegmentSpaceUsage_component(segment[1], kind))
          /\ call' = [op |-> "component", component |-> kind]
    /\ UNCHANGED <<field_usage, panicked, per_field, store, segment, searcher>>

NextSegment == StoreNew \/ SegmentNew \/ Component

SpecSegment == InitQuiet /\ [][NextSegment]_vars

----------------------------------------------------------------------------
(* SearcherSpaceUsage: segments are added one by one *)

\* searcher.add_segment(segment)
AddSegment ==
    /\ Len(searcher.segments) < MaxSegments
    /\ \E new_segment \in SegmentInputs :
          /\ searcher' = SearcherSpaceUsage_add_segment(searcher, new_segment)
          /\ call' = [op |-> "add_segment", segment |-> new_segment]
    /\ UNCHANGED <<field_usage, panicked, per_field, store, segment, component_result>>

\* SearcherSpaceUsage::new(): another searcher is measured
SearcherNew ==
    /\ searcher' = SearcherSpaceUsage_new
    /\ call' = [op |-> "SearcherSpaceUsage::new"]
    /\ UNCHANGED <<field_usage, panicked, per_field, store, segment, component_result>>

Init == InitQuiet

Next == AddSegment \/ SearcherNew

Spec == Init /\ [][Next]_vars

----------------------------------------------------------------------------
(* Sums the properties are stated with *)

\* the sum of the present (Some) entries of a Vec<Option<ByteCount>>
RECURSIVE SumPresent(_)
SumPresent(sub) ==
    IF sub = <<>> THEN 0
    ELSE (IF Head(sub) = None THEN 0 ELSE Head(sub)[1]) + SumPresent(Tail(sub))

\* the sum of total() over a sequence of segments
RECURSIVE SumSegments(_)
SumSegments(segs) ==
    IF segs = <<>> THEN 0
    ELSE SegmentSpaceUsage_total(Head(segs)) + SumSegments(Tail(segs))

\* the sum of total() over a set of (field, usage) pairs
RECURSIVE SumPairs(_)
SumPairs(pairs) ==
    IF pairs = {} THEN 0
    ELSE LET p == CHOOSE q \in pairs : TRUE
         IN  FieldUsage_total(p[2]) + SumPairs(pairs \ {p})

\* the magnitude of a ComponentSpaceUsage
Magnitude(c) ==
    CASE c.shape = "PerField" -> PerFieldSpaceUsage_total(c.usage)
      [] c.shape = "Store" -> StoreSpaceUsage_total(c.usage)
      [] c.shape = "Basic" -> c.usage

----------------------------------------------------------------------------
(* SearcherSpaceUsage *)

\* C1: after any sequence of add_segment calls on a new SearcherSpaceUsage,
\* total() is the sum of total() over segments(); it is 0 with no segment.
C1_SearcherTotalIsSum ==
    /\ SearcherSpaceUsage_total(searcher) = SumSegments(SearcherSpaceUsage_segments(searcher))
    /\ SearcherSpaceUsage_segments(searcher) = <<>> => SearcherSpaceUsage_total(searcher) = 0

\* two segments of different positive totals have been added
C1_Witness ==
    /\ Len(searcher.segments) >= 2
    /\ searcher.segments[1].total > 0
    /\ searcher.segments[2].total > searcher.segments[1].total

\* C8: each add_segment(s) appends s as the last element, leaves the elements
\* before it and their order as they were, and raises total() by s.total(),
\* also when s is in the list already.
C8_AddSegmentAppends ==
    [][call'.op = "add_segment" =>
          /\ searcher'.segments = Append(searcher.segments, call'.segment)
          /\ Len(searcher'.segments) = Len(searcher.segments) + 1
          /\ \A i \in 1..Len(searcher.segments) :
                 searcher'.segments[i] = searcher.segments[i]
          /\ searcher'.total = searcher.total + call'.segment.total]_vars

\* the same segment was added twice: two entries, its total counted twice
C8_Witness ==
    /\ Len(searcher.segments) = 2
    /\ searcher.segments[1] = searcher.segments[2]
    /\ searcher.segments[1].total > 0
    /\ searcher.total = 2 * searcher.segments[1].total

----------------------------------------------------------------------------
(* SegmentSpaceUsage, StoreSpaceUsage *)

\* C2: the total of a segment built by new(..) is the sum of the totals of its
\* five per-field usages, of its store usage and of deletes, both as read from
\* the segment and as handed to new(); num_docs is no part of it.
C2_SegmentTotalIsSum ==
    segment # None =>
        /\ SegmentSpaceUsage_total(segment[1]) =
               PerFieldSpaceUsage_total(SegmentSpaceUsage_termdict(segment[1]))
               + PerFieldSpaceUsage_total(SegmentSpaceUsage_postings(segment[1]))
               + PerFieldSpaceUsage_total(SegmentSpaceUsage_positions(segment[1]))
               + PerFieldSpaceUsage_total(SegmentSpaceUsage_fast_fields(segment[1]))
               + PerFieldSpaceUsage_total(SegmentSpaceUsage_fieldnorms(segment[1]))
               + StoreSpaceUsage_total(SegmentSpaceUsage_store(segment[1]))
               + SegmentSpaceUsage_deletes(segment[1])
        /\ call.op = "SegmentSpaceUsage::new" =>
               SegmentSpaceUsage_total(segment[1]) =
                   call.termdict.total + call.postings.total + call.positions.total
                   + call.fast_fields.total + call.fieldnorms.total
                   + (call.store.data + call.store.offsets) + call.deletes

\* a segment with documents whose seven parts are all positive
C2_Witness ==
    /\ segment # None
    /\ call.op = "SegmentSpaceUsage::new"
    /\ segment[1].num_docs > 0
    /\ segment[1].termdict.total > 0
    /\ segment[1].postings.total > 0
    /\ segment[1].positions.total > 0
    /\ segment[1].fast_fields.total > 0
    /\ segment[1].fieldnorms.total > 0
    /\ segment[1].store.data > 0
    /\ segment[1].store.offsets > 0
    /\ segment[1].deletes > 0
    /\ segment[1].total = 5 * MaxBytes + segment[1].store.data
                          + segment[1].store.offsets + segment[1].deletes

\* the shape component() must answer a component kind with
ShapeOf(kind) ==
    CASE kind \in {"Postings", "Positions", "FastFields", "FieldNorms", "Terms"} -> "PerField"
      [] kind \in {"Store", "TempStore"} -> "Store"
      [] kind = "Delete" -> "Basic"

\* the total of the direct accessor of a component kind
AccessorTotal(seg, kind) ==
    CASE kind = "Postings" -> PerFieldSpaceUsage_total(SegmentSpaceUsage_postings(seg))
      [] kind = "Positions" -> PerFieldSpaceUsage_total(SegmentSpaceUsage_positions(seg))
      [] kind = "FastFields" -> PerFieldSpaceUsage_total(SegmentSpaceUsage_fast_fields(seg))
      [] kind = "FieldNorms" -> PerFieldSpaceUsage_total(SegmentSpaceUsage_fieldnorms(seg))
      [] kind = "Terms" -> PerFieldSpaceUsage_total(SegmentSpaceUsage_termdict(seg))
      [] kind \in {"Store", "TempStore"} -> StoreSpaceUsage_total(SegmentSpaceUsage_store(seg))
      [] kind = "Delete" -> SegmentSpaceUsage_deletes(seg)

\* C6: component(kind) answers with the shape of the fixed mapping, its
\* magnitude is the total of the direct accessor, Store and TempStore both
\* give the store usage of the segment, and the call leaves the segment as it was.
C6_ComponentMatchesAccessor ==
    /\ [](call.op = "component" =>
             /\ component_result # None
             /\ component_result[1].shape = ShapeOf(call.component)
             /\ Magnitude(component_result[1]) = AccessorTotal(segment[1], call.component)
             /\ call.component \in {"Store", "TempStore"} =>
                    component_result[1].usage = SegmentSpaceUsage_store(segment[1]))
    /\ [][call'.op = "component" => segment' = segment]_vars

\* TempStore was asked of a segment whose store usage is positive
C6_Witness ==
    /\ call.op = "component"
    /\ call.component = "TempStore"
    /\ component_result[1].shape = "Store"
    /\ component_result[1].usage.data > 0
    /\ component_result[1].usage.offsets > component_result[1].usage.data

\* C7: for a StoreSpaceUsage built by new(data, offsets), data_usage() is data,
\* offsets_usage() is offsets and total() is their sum.
C7_StoreAccessors ==
    store # None =>
        /\ StoreSpaceUsage_total(store[1]) =
               StoreSpaceUsage_data_usage(store[1]) + StoreSpaceUsage_offsets_usage(store[1])
        /\ call.op = "StoreSpaceUsage::new" =>
               /\ StoreSpaceUsage_data_usage(store[1]) = call.data
               /\ StoreSpaceUsage_offsets_usage(store[1]) = call.offsets
               /\ StoreSpaceUsage_total(store[1]) = call.data + call.offsets

\* a store usage built from two different positive byte counts
C7_Witness ==
    /\ store # None
    /\ call.op = "StoreSpaceUsage::new"
    /\ call.data > 0
    /\ call.offsets > call.data
    /\ StoreSpaceUsage_total(store[1]) = call.data + call.offsets

----------------------------------------------------------------------------
(* FieldUsage *)

\* C3: after add_field_idx calls on FieldUsage::empty(field) none of which
\* repeats an index, total() is the sum of the present entries of sub_num_bytes().
C3_FieldTotalIsSumOfPresent ==
    ~panicked =>
        FieldUsage_total(field_usage) = SumPresent(FieldUsage_sub_num_bytes(field_usage))

\* sub-parts 0 and 2 are recorded with positive sizes, sub-part 1 is not
C3_Witness ==
    /\ ~panicked
    /\ Len(field_usage.sub_num_bytes) = 3
    /\ field_usage.sub_num_bytes[1] = Some(1)
    /\ field_usage.sub_num_bytes[2] = None
    /\ field_usage.sub_num_bytes[3] = Some(2)
    /\ field_usage.num_bytes = 3

\* C4: add_field_idx(idx, size) on a FieldUsage whose slot idx holds a value
\* (0 included) fails whatever size is, and leaves num_bytes and the value in
\* slot idx as they were.
C4_RepeatedIndexFails ==
    [][(/\ call'.op = "add_field_idx"
        /\ call'.idx < Len(field_usage.sub_num_bytes)
        /\ field_usage.sub_num_bytes[call'.idx + 1] # None)
       => /\ panicked'
          /\ field_usage'.num_bytes = field_usage.num_bytes
          /\ field_usage'.sub_num_bytes[call'.idx + 1]
                 = field_usage.sub_num_bytes[call'.idx + 1]]_vars

\* a positive size was recorded on a slot that holds 0, and the call failed
C4_Witness ==
    /\ panicked
    /\ call.op = "add_field_idx"
    /\ call.size > 0
    /\ field_usage.sub_num_bytes[call.idx + 1] = Some(0)
    /\ field_usage.num_bytes = SumPresent(field_usage.sub_num_bytes)

\* C9: an add_field_idx(idx, size) that succeeds sets slot idx to size, raises
\* num_bytes by size, grows a shorter sequence to idx + 1 slots of which the
\* new ones other than idx are absent, and leaves the other slots and the
\* field as they were; so a slot below a recorded one can be recorded later.
C9_AddFieldIdxEffect ==
    [][(call'.op = "add_field_idx" /\ ~panicked')
       => LET old == field_usage.sub_num_bytes
              new == field_usage'.sub_num_bytes
              slot == call'.idx + 1
          IN  /\ new[slot] = Some(call'.size)
              /\ field_usage'.num_bytes = field_usage.num_bytes + call'.size
              /\ Len(new) = IF Len(old) < slot THEN slot ELSE Len(old)
              /\ \A i \in (1..Len(new)) \ {slot} :
                     new[i] = IF i <= Len(old) THEN old[i] ELSE None
              /\ field_usage'.field = field_usage.field]_vars

\* the last call recorded slot 0 of a sequence that already had three slots
C9_Witness ==
    /\ ~panicked
    /\ call.op = "add_field_idx"
    /\ call.idx = 0
    /\ Len(field_usage.sub_num_bytes) = 3
    /\ field_usage.sub_num_bytes[1] = Some(call.size)
    /\ field_usage.sub_num_bytes[2] = None
    /\ field_usage.sub_num_bytes[3] # None

\* C10: sub_num_bytes is empty or its last slot is present (its length is one
\* more than the highest index recorded); under add_field_idx the length does
\* not shrink and a present slot keeps its value.
C10_LastSlotPresent ==
    /\ [](\/ field_usage.sub_num_bytes = <<>>
          \/ field_usage.sub_num_bytes[Len(field_usage.sub_num_bytes)] # None)
    /\ [][call'.op = "add_field_idx" =>
             /\ Len(field_usage'.sub_num_bytes) >= Len(field_usage.sub_num_bytes)
             /\ \A i \in 1..Len(field_usage.sub_num_bytes) :
                    field_usage.sub_num_bytes[i] # None =>
                        field_usage'.sub_num_bytes[i] = field_usage.sub_num_bytes[i]]_vars

\* only the highest sub-part is recorded: two absent slots below it
C10_Witness ==
    /\ ~panicked
    /\ call.op = "add_field_idx"
    /\ call.idx = MaxIdx
    /\ Len(field_usage.sub_num_bytes) = MaxIdx + 1
    /\ \A i \in 1..MaxIdx : field_usage.sub_num_bytes[i] = None
    /\ field_usage.sub_num_bytes[MaxIdx + 1] # None

----------------------------------------------------------------------------
(* PerFieldSpaceUsage *)

\* the field identifiers of a list of FieldUsage
FieldsOf(fields) == {FieldUsage_field(fields[i]) : i \in 1..Len(fields)}

\* no two entries of the list have the same field identifier
DistinctFields(fields) ==
    \A i, j \in 1..Len(fields) :
        FieldUsage_field(fields[i]) = FieldUsage_field(fields[j]) => i = j

\* the mapping has one entry per field identifier of the list, under that identifier
OneEntryPerField(usage, fields) ==
    /\ {p[1] : p \in PerFieldSpaceUsage_fields(usage)} = FieldsOf(fields)
    /\ Cardinality(PerFieldSpaceUsage_fields(usage)) = Cardinality(FieldsOf(fields))
    /\ \A p \in PerFieldSpaceUsage_fields(usage) :
           /\ FieldUsage_field(p[2]) = p[1]
           /\ \E i \in 1..Len(fields) : fields[i] = p[2]

\* C5 as stated: for every list handed to new(), total() is the sum of
\* FieldUsage.total() over the pairs of fields(), and the mapping has one
\* entry per field identifier.
C5_TotalIsSumOfEntries ==
    call.op = "PerFieldSpaceUsage::new" =>
        /\ PerFieldSpaceUsage_total(per_field[1]) = SumPairs(PerFieldSpaceUsage_fields(per_field[1]))
        /\ OneEntryPerField(per_field[1], call.fields)

\* C5 amended: for every list handed to new() the mapping has one entry per
\* field identifier of the list and total() is the sum of total() over the
\* list; when no two entries of the list have the same field identifier,
\* total() is the sum of FieldUsage.total() over the pairs of fields().
C5_TotalIsSumOfEntriesIfDistinct ==
    call.op = "PerFieldSpaceUsage::new" =>
        /\ OneEntryPerField(per_field[1], call.fields)
        /\ PerFieldSpaceUsage_total(per_field[1]) = sum_totals(call.fields)
        /\ DistinctFields(call.fields) =>
               PerFieldSpaceUsage_total(per_field[1])
                   = SumPairs(PerFieldSpaceUsage_fields(per_field[1]))

\* a list of two different fields of different positive sizes was built
C5_Witness ==
    /\ call.op = "PerFieldSpaceUsage::new"
    /\ Len(call.fields) = 2
    /\ DistinctFields(call.fields)
    /\ call.fields[1].num_bytes > 0
    /\ call.fields[2].num_bytes > call.fields[1].num_bytes
    /\ per_field[1].total = call.fields[1].num_bytes + call.fields[2].num_bytes

====
